---- MODULE Spec2Model ----
(***************************************************************************)
(* CSV Plotter (src/src/App.js): the App component's state, the upload     *)
(* callbacks of Papa.parse, and the selection and zoom handlers.           *)
(*                                                                         *)
(* A row is the ordered list of its entries <<[key, val], ...>>, the order *)
(* Object.entries / Object.keys enumerate (insertion order; the column     *)
(* names used here are not integer-like, which JavaScript would reorder).  *)
(* A value is Num(n) (a number, what dynamicTyping yields for a numeric    *)
(* cell) or Str(s), s the sequence of the string's characters.             *)
(***************************************************************************)
EXTENDS Integers, Sequences, FiniteSets, TLC

VARIABLES
    data,             \* useState([])                     (line 11)
    headers,          \* useState([])                     (line 12)
    chartType,        \* useState("line")                 (line 13)
    selectedColumns,  \* useState([])                     (line 14)
    zoomDomain,       \* useState({ start: 0, end: 10 })  (line 16)
    xAxisStrategy,    \* useState("auto")                 (line 17)
    started,          \* the files handed to Papa.parse, in upload order
    pending,          \* the uploads whose callback has not fired yet
    completed,        \* history: the uploads whose complete callback fired, in firing order
    lastOp,           \* history: the handler that ran last
    origin,           \* history (SpecZoom): the window the handlers were first invoked on
    steps,            \* history (SpecZoom): the zoom handlers invoked since, in order
    shown             \* what renderChart / sampleData returned last (SpecRender, SpecSample)

vars == <<data, headers, chartType, selectedColumns, zoomDomain, xAxisStrategy,
          started, pending, completed, lastOp, origin, steps, shown>>

----------------------------------------------------------------------------
(* Bounds of the model *)

\* uploads started in one run
MaxUploads == 2

\* longest Dataset the zoom handlers are invoked on directly (SpecZoom, SpecZoomIn)
MaxLen == 12

\* zoom handlers invoked in a row on one starting window (SpecZoom)
MaxZoomSteps == 2

----------------------------------------------------------------------------
(* Values, rows, parse results *)

Num(n) == [t |-> "num", n |-> n]

Str(s) == [t |-> "str", s |-> s]

Cell(k, v) == [key |-> k, val |-> v]

ChartKinds == {"line", "bar", "area", "scatter", "pie"}

TickStrategies == {"auto", "sparse", "sample", "none"}

Range(s) == {s[i] : i \in 1..Len(s)}

Min2(a, b) == IF a < b THEN a ELSE b

Max2(a, b) == IF a > b THEN a ELSE b

\* Math.ceil(a / b) for a >= 0, b > 0
CeilDiv(a, b) == (a + b - 1) \div b

Whitespace == {" ", "\t"}

RECURSIVE TrimStart(_)
TrimStart(s) ==
    IF s # <<>> /\ Head(s) \in Whitespace THEN TrimStart(Tail(s)) ELSE s

RECURSIVE TrimEnd(_)
TrimEnd(s) ==
    IF s # <<>> /\ s[Len(s)] \in Whitespace
    THEN TrimEnd(SubSeq(s, 1, Len(s) - 1))
    ELSE s

\* String.prototype.trim
Trim(s) == TrimEnd(TrimStart(s))

\* typeof val === "string" ? val.trim() : val
TrimValue(v) == IF v.t = "str" THEN Str(Trim(v.s)) ELSE v

\* the trimmedRow built from Object.entries(row)
TrimRow(row) == [i \in 1..Len(row) |-> Cell(row[i].key, TrimValue(row[i].val))]

\* results.data.map(row => trimmedRow)
CleanedData(rows) == [i \in 1..Len(rows) |-> TrimRow(rows[i])]

\* Object.keys(row)
ObjectKeys(row) == [i \in 1..Len(row) |-> row[i].key]

(* The results.data of the files a user uploads. *)
SalesRows ==
    << <<Cell("Year", Num(2020)), Cell("Sales", Num(100))>>,
       <<Cell("Year", Num(2021)), Cell("Sales", Num(150))>>,
       <<Cell("Year", Num(2022)), Cell("Sales", Num(90))>> >>

WideRows ==
    [i \in 1..6 |->
        <<Cell("t", Str(<<" ", "r", "\t">>)),
          Cell("A", IF i = 2 THEN Str(<<"n", "a", " ">>) ELSE Num(0)),
          Cell("B", Num(i * 5))>>]

SingleRows == << <<Cell("x", Str(<<" ", "v">>))>> >>

FileNames == {"empty", "single", "sales", "wide"}

ResultsData(f) ==
    CASE f = "empty"  -> <<>>
      [] f = "single" -> SingleRows
      [] f = "sales"  -> SalesRows
      [] f = "wide"   -> WideRows

----------------------------------------------------------------------------
(* The component's state as one value, and the handlers as functions on it *)

View ==
    [data |-> data, headers |-> headers, chartType |-> chartType,
     selectedColumns |-> selectedColumns, zoomDomain |-> zoomDomain,
     xAxisStrategy |-> xAxisStrategy]

InitView ==
    [data |-> <<>>, headers |-> <<>>, chartType |-> "line",
     selectedColumns |-> <<>>, zoomDomain |-> [start |-> 0, end |-> 10],
     xAxisStrategy |-> "auto"]

\* Mutant of OnComplete: the new rows are added to the old ones.
OnCompleteAppends(v, rows) ==
    LET cleanedData == v.data \o CleanedData(rows)
        cols == ObjectKeys(rows[1])
    IN  IF Len(rows) > 0
        THEN [v EXCEPT !.data = cleanedData,
                       !.headers = cols,
                       !.selectedColumns = IF Len(cols) > 1 THEN <<cols[2]>> ELSE <<>>,
                       !.zoomDomain = [start |-> 0, end |-> Len(cleanedData) - 1]]
        ELSE [v EXCEPT !.data = cleanedData]

\* Mutant of OnComplete: the first column is the default selection.
OnCompleteSelectsFirst(v, rows) ==
    LET cleanedData == CleanedData(rows)
        cols == ObjectKeys(rows[1])
    IN  IF Len(rows) > 0
        THEN [v EXCEPT !.data = cleanedData,
                       !.headers = cols,
                       !.selectedColumns = <<cols[1]>>,
                       !.zoomDomain = [start |-> 0, end |-> Len(cleanedData) - 1]]
        ELSE [v EXCEPT !.data = cleanedData]

\* Mutant of OnComplete: headers are set only while there are none.
OnCompleteKeepsHeaders(v, rows) ==
    LET cleanedData == CleanedData(rows)
        cols == ObjectKeys(rows[1])
    IN  IF Len(rows) > 0
        THEN [v EXCEPT !.data = cleanedData,
                       !.headers = IF v.headers = <<>> THEN cols ELSE v.headers,
                       !.selectedColumns = IF Len(cols) > 1 THEN <<cols[2]>> ELSE <<>>,
                       !.zoomDomain = [start |-> 0, end |-> Len(cleanedData) - 1]]
        ELSE [v EXCEPT !.data = cleanedData]

\* Mutant of OnComplete: the selection is kept across uploads when there is one.
OnCompleteKeepsSelection(v, rows) ==
    LET cleanedData == CleanedData(rows)
        cols == ObjectKeys(rows[1])
    IN  IF Len(rows) > 0
        THEN [v EXCEPT !.data = cleanedData,
                       !.headers = cols,
                       !.selectedColumns =
                           IF v.selectedColumns # <<>> THEN v.selectedColumns
                           ELSE IF Len(cols) > 1 THEN <<cols[2]>> ELSE <<>>,
                       !.zoomDomain = [start |-> 0, end |-> Len(cleanedData) - 1]]
        ELSE [v EXCEPT !.data = cleanedData]

\* Papa.parse's complete callback (lines 31-51); cols[1] of the source is cols[2] here.
OnComplete(v, rows) ==
    LET cleanedData == CleanedData(rows)
        cols == ObjectKeys(rows[1])
    IN  IF Len(rows) > 0
        THEN [v EXCEPT !.data = cleanedData,
                       !.headers = cols,
                       !.selectedColumns = IF Len(cols) > 1 THEN <<cols[2]>> ELSE <<>>,
                       !.zoomDomain = [start |-> 0, end |-> Len(cleanedData) - 1]]
        ELSE [v EXCEPT !.data = cleanedData]

\* Mutant of OnError: a failed parse empties the Dataset.
OnErrorClears(v) == [v EXCEPT !.data = <<>>]

\* Papa.parse's error callback (lines 52-54): console.error only
OnError(v) == v

\* Mutant of ToggleColumn: the column is appended whether or not it is selected.
ToggleColumnAppends(prev, col) == Append(prev, col)

\* handleColumnToggle's updater (lines 61-63)
ToggleColumn(prev, col) ==
    IF col \in Range(prev)
    THEN SelectSeq(prev, LAMBDA c : c # col)
    ELSE Append(prev, col)

\* Mutant of ZoomInWindow: the increment is rounded down.
ZoomInWindowFloor(prev) ==
    LET range == prev.end - prev.start
        increment == range \div 4
        newStart == prev.start + increment
        newEnd == prev.end - increment
    IN  IF range <= 2 THEN prev
        ELSE IF newStart >= newEnd THEN prev
        ELSE [start |-> newStart, end |-> newEnd]

\* handleZoomIn's updater (lines 68-79)
ZoomInWindow(prev) ==
    LET range == prev.end - prev.start
        increment == CeilDiv(range, 4)
        newStart == prev.start + increment
        newEnd == prev.end - increment
    IN  IF range <= 2 THEN prev
        ELSE IF newStart >= newEnd THEN prev
        ELSE [start |-> newStart, end |-> newEnd]

\* Mutant of ZoomOutWindow: the end is not clamped to the last row.
ZoomOutWindowUnclamped(prev, length) ==
    LET range == prev.end - prev.start
        increment == CeilDiv(range, 2)
    IN  [start |-> Max2(0, prev.start - increment), end |-> prev.end + increment]

\* handleZoomOut's updater (lines 84-93); length is data.length
ZoomOutWindow(prev, length) ==
    LET range == prev.end - prev.start
        increment == CeilDiv(range, 2)
        newStart == Max2(0, prev.start - increment)
        newEnd == Min2(length - 1, prev.end + increment)
    IN  [start |-> newStart, end |-> newEnd]

\* handleResetZoom (line 97)
ResetWindow(length) == [start |-> 0, end |-> length - 1]

\* line 548
canZoomIn == zoomDomain.end - zoomDomain.start > 2

\* line 549
canZoomOut == ~(zoomDomain.start = 0 /\ zoomDomain.end = Len(data) - 1)

----------------------------------------------------------------------------
(* The application: handlers reached through the rendered controls *)

Op(name) == [op |-> name, seq |-> 0, col |-> ""]

\* nothing rendered yet
NoRender == [kind |-> "none"]

SetView(v) ==
    /\ data' = v.data
    /\ headers' = v.headers
    /\ chartType' = v.chartType
    /\ selectedColumns' = v.selectedColumns
    /\ zoomDomain' = v.zoomDomain
    /\ xAxisStrategy' = v.xAxisStrategy

Init ==
    /\ data = InitView.data
    /\ headers = InitView.headers
    /\ chartType = InitView.chartType
    /\ selectedColumns = InitView.selectedColumns
    /\ zoomDomain = InitView.zoomDomain
    /\ xAxisStrategy = InitView.xAxisStrategy
    /\ started = <<>>
    /\ pending = {}
    /\ completed = <<>>
    /\ lastOp = Op("init")
    /\ origin = InitView.zoomDomain
    /\ steps = <<>>
    /\ shown = NoRender

\* handleFileUpload (lines 24-27): Papa.parse starts; its callback fires later
handleFileUpload(f) ==
    /\ Len(started) < MaxUploads
    /\ started' = Append(started, f)
    /\ pending' = pending \cup {Len(started) + 1}
    /\ lastOp' = [Op("upload") EXCEPT !.seq = Len(started) + 1]
    /\ UNCHANGED <<data, headers, chartType, selectedColumns, zoomDomain,
                   xAxisStrategy, completed, origin, steps, shown>>

\* the complete callback of upload i fires (lines 31-51)
ParseComplete(i) ==
    /\ i \in pending
    /\ SetView(OnComplete(View, ResultsData(started[i])))
    /\ pending' = pending \ {i}
    /\ completed' = Append(completed, i)
    /\ lastOp' = [Op("complete") EXCEPT !.seq = i]
    /\ UNCHANGED <<started, origin, steps, shown>>

\* the error callback of upload i fires (lines 52-54): the file could not be read
ParseError(i) ==
    /\ i \in pending
    /\ SetView(OnError(View))
    /\ pending' = pending \ {i}
    /\ lastOp' = [Op("error") EXCEPT !.seq = i]
    /\ UNCHANGED <<started, completed, origin, steps, shown>>

\* handleChartTypeChange (line 58), from the select rendered at lines 576-590
handleChartTypeChange(k) ==
    /\ Len(data) > 0
    /\ k # chartType
    /\ chartType' = k
    /\ lastOp' = Op("chart")
    /\ UNCHANGED <<data, headers, selectedColumns, zoomDomain, xAxisStrategy,
                   started, pending, completed, origin, steps, shown>>

\* setXAxisStrategy (line 594), from the select rendered at lines 592-602
handleStrategyChange(k) ==
    /\ Len(data) > 0
    /\ k # xAxisStrategy
    /\ xAxisStrategy' = k
    /\ lastOp' = Op("strategy")
    /\ UNCHANGED <<data, headers, chartType, selectedColumns, zoomDomain,
                   started, pending, completed, origin, steps, shown>>

\* handleColumnToggle (lines 60-64), from a checkbox of headers.slice(1) (lines 617-622)
handleColumnToggle(col) ==
    /\ Len(data) > 0
    /\ \E i \in 2..Len(headers) : headers[i] = col
    /\ selectedColumns' = ToggleColumn(selectedColumns, col)
    /\ lastOp' = [Op("toggle") EXCEPT !.col = col]
    /\ UNCHANGED <<data, headers, chartType, zoomDomain, xAxisStrategy,
                   started, pending, completed, origin, steps, shown>>

\* the zoom buttons are rendered for a non-empty Dataset and a non-pie kind (lines 576, 631)
ZoomControlsShown == Len(data) > 0 /\ chartType # "pie"

\* handleZoomIn (lines 67-80), from the button enabled by canZoomIn (lines 637-638)
handleZoomIn ==
    /\ ZoomControlsShown
    /\ canZoomIn
    /\ zoomDomain' = ZoomInWindow(zoomDomain)
    /\ lastOp' = Op("zoomIn")
    /\ UNCHANGED <<data, headers, chartType, selectedColumns, xAxisStrategy,
                   started, pending, completed, origin, steps, shown>>

\* handleZoomOut (lines 83-94), from the button enabled by canZoomOut (lines 645-646)
handleZoomOut ==
    /\ ZoomControlsShown
    /\ canZoomOut
    /\ zoomDomain' = ZoomOutWindow(zoomDomain, Len(data))
    /\ lastOp' = Op("zoomOut")
    /\ UNCHANGED <<data, headers, chartType, selectedColumns, xAxisStrategy,
                   started, pending, completed, origin, steps, shown>>

\* handleResetZoom (lines 96-98), from the button at line 653
handleResetZoom ==
    /\ ZoomControlsShown
    /\ zoomDomain' = ResetWindow(Len(data))
    /\ lastOp' = Op("reset")
    /\ UNCHANGED <<data, headers, chartType, selectedColumns, xAxisStrategy,
                   started, pending, completed, origin, steps, shown>>

Next ==
    \/ \E f \in FileNames : handleFileUpload(f)
    \/ \E i \in pending : ParseComplete(i)
    \/ \E i \in pending : ParseError(i)
    \/ \E k \in ChartKinds : handleChartTypeChange(k)
    \/ \E k \in TickStrategies : handleStrategyChange(k)
    \/ \E col \in Range(headers) : handleColumnToggle(col)
    \/ handleZoomIn
    \/ handleZoomOut
    \/ handleResetZoom

Spec == Init /\ [][Next]_vars

----------------------------------------------------------------------------
(* The zoom handlers invoked directly, on every valid window of a Dataset *)

\* results.data of a file of n rows and two columns
SeriesRows(n) == [i \in 1..n |-> <<Cell("i", Num(i)), Cell("v", Num(i * i))>>]

InitZoom ==
    \E n \in 2..MaxLen : \E s \in 0..(n - 2) : \E e \in (s + 1)..(n - 1) :
        /\ data = CleanedData(SeriesRows(n))
        /\ headers = ObjectKeys(SeriesRows(n)[1])
        /\ chartType = "line"
        /\ selectedColumns = <<"v">>
        /\ zoomDomain = [start |-> s, end |-> e]
        /\ xAxisStrategy = "auto"
        /\ started = <<>>
        /\ pending = {}
        /\ completed = <<>>
        /\ lastOp = Op("init")
        /\ origin = [start |-> s, end |-> e]
        /\ steps = <<>>
        /\ shown = NoRender

\* handleZoomIn (lines 67-80), called whatever the buttons' state
DirectZoomIn ==
    /\ Len(steps) < MaxZoomSteps
    /\ zoomDomain' = ZoomInWindow(zoomDomain)
    /\ steps' = Append(steps, "in")
    /\ lastOp' = Op("zoomIn")
    /\ UNCHANGED <<data, headers, chartType, selectedColumns, xAxisStrategy,
                   started, pending, completed, origin, shown>>

\* handleZoomOut (lines 83-94), called whatever the buttons' state
DirectZoomOut ==
    /\ Len(steps) < MaxZoomSteps
    /\ zoomDomain' = ZoomOutWindow(zoomDomain, Len(data))
    /\ steps' = Append(steps, "out")
    /\ lastOp' = Op("zoomOut")
    /\ UNCHANGED <<data, headers, chartType, selectedColumns, xAxisStrategy,
                   started, pending, completed, origin, shown>>

\* handleResetZoom (lines 96-98), called directly
DirectResetZoom ==
    /\ Len(steps) < MaxZoomSteps
    /\ zoomDomain' = ResetWindow(Len(data))
    /\ steps' = Append(steps, "reset")
    /\ lastOp' = Op("reset")
    /\ UNCHANGED <<data, headers, chartType, selectedColumns, xAxisStrategy,
                   started, pending, completed, origin, shown>>

NextZoom ==
    \/ DirectZoomIn
    \/ DirectZoomOut
    \/ DirectResetZoom

SpecZoom == InitZoom /\ [][NextZoom]_vars

\* handleZoomIn (lines 67-80) called again and again
RepeatZoomIn ==
    /\ zoomDomain' = ZoomInWindow(zoomDomain)
    /\ lastOp' = Op("zoomIn")
    /\ UNCHANGED <<data, headers, chartType, selectedColumns, xAxisStrategy,
                   started, pending, completed, origin, steps, shown>>

\* Every click is handled: the event loop runs each handler to completion.
SpecZoomIn == InitZoom /\ [][RepeatZoomIn]_vars /\ WF_vars(RepeatZoomIn)

----------------------------------------------------------------------------
(* Rendering: what renderChart computes from the state *)

\* an empty cell under dynamicTyping
Null == [t |-> "null"]

\* a "true" / "false" cell under dynamicTyping
Bool(b) == [t |-> "bool", b |-> b]

\* row[col] of a column the row does not have
Undefined == [t |-> "undef"]

NaN == [nan |-> TRUE, n |-> 0]

Finite(n) == [nan |-> FALSE, n |-> n]

\* line 8
COLORS == <<"#8884d8", "#82ca9d", "#ffc658", "#ff8042", "#8dd1e1">>

\* line 358: chartData.length > 2000
SampleThreshold == 2000

\* line 361: sampleData(chartData, 1000)
SampleMaxPoints == 1000

Digits == <<"0", "1", "2", "3", "4", "5", "6", "7", "8", "9">>

IsDigit(c) == \E d \in 1..Len(Digits) : Digits[d] = c

DigitValue(c) == (CHOOSE d \in 1..Len(Digits) : Digits[d] = c) - 1

RECURSIVE DigitsToNumber(_, _)
DigitsToNumber(s, acc) ==
    IF s = <<>> THEN acc ELSE DigitsToNumber(Tail(s), 10 * acc + DigitValue(Head(s)))

\* Number(string): whitespace is trimmed, "" is 0, an optionally signed run of
\* decimal digits is its value, anything else is NaN (fractions, exponents and
\* the other numeric literals are not among the cells used here)
StringToNumber(s) ==
    LET t == Trim(s)
        signed == t # <<>> /\ Head(t) \in {"-", "+"}
        body == IF signed THEN Tail(t) ELSE t
    IN  IF t = <<>> THEN Finite(0)
        ELSE IF body # <<>> /\ \A i \in 1..Len(body) : IsDigit(body[i])
        THEN Finite(IF Head(t) = "-" THEN 0 - DigitsToNumber(body, 0)
                    ELSE DigitsToNumber(body, 0))
        ELSE NaN

\* Number(value) (lines 102, 478)
ToNumber(v) ==
    CASE v.t = "num"   -> Finite(v.n)
      [] v.t = "str"   -> StringToNumber(v.s)
      [] v.t = "null"  -> Finite(0)
      [] v.t = "bool"  -> Finite(IF v.b THEN 1 ELSE 0)
      [] v.t = "undef" -> NaN

\* row[col]
Get(row, col) ==
    IF \E j \in 1..Len(row) : row[j].key = col
    THEN row[CHOOSE j \in 1..Len(row) : row[j].key = col].val
    ELSE Undefined

\* Array.prototype.slice(from, to), indices counted from 0
Slice(arr, from, to) ==
    LET len == Len(arr)
        k == IF from < 0 THEN Max2(len + from, 0) ELSE Min2(from, len)
        final == IF to < 0 THEN Max2(len + to, 0) ELSE Min2(to, len)
    IN  IF k < final THEN SubSeq(arr, k + 1, final) ELSE <<>>

RECURSIVE SeqMin(_)
SeqMin(s) == IF Len(s) = 1 THEN s[1] ELSE Min2(s[1], SeqMin(Tail(s)))

RECURSIVE SeqMax(_)
SeqMax(s) == IF Len(s) = 1 THEN s[1] ELSE Max2(s[1], SeqMax(Tail(s)))

\* Mutant of getDataRange: the padding is taken from the maximum, not from the spread.
getDataRangePadsByMax(rows, column) ==
    LET numbers == [i \in 1..Len(rows) |-> ToNumber(Get(rows[i], column))]
        kept == SelectSeq(numbers, LAMBDA v : ~v.nan)
        values == [i \in 1..Len(kept) |-> kept[i].n]
    IN  IF Len(values) = 0 THEN [min10 |-> 0, max10 |-> 1000]
        ELSE [min10 |-> 10 * SeqMin(values) - SeqMax(values),
              max10 |-> 10 * SeqMax(values) + SeqMax(values)]

\* getDataRange (lines 101-108). The two bounds are in tenths: padding is
\* (max - min) * 0.1, so 10 * (min - padding) = 10 * min - (max - min); the
\* default [0, 100] is [0, 1000] tenths. Floating-point rounding is not modelled.
getDataRange(rows, column) ==
    LET numbers == [i \in 1..Len(rows) |-> ToNumber(Get(rows[i], column))]
        kept == SelectSeq(numbers, LAMBDA v : ~v.nan)
        values == [i \in 1..Len(kept) |-> kept[i].n]
        min == SeqMin(values)
        max == SeqMax(values)
        padding10 == max - min
    IN  IF Len(values) = 0 THEN [min10 |-> 0, max10 |-> 1000]
        ELSE [min10 |-> 10 * min - padding10, max10 |-> 10 * max + padding10]

\* the indices i = 0, step, 2 * step, ... < length pushed by the loop of lines 130-132
RECURSIVE Strided(_, _, _)
Strided(i, step, length) ==
    IF i < length THEN <<i>> \o Strided(i + step, step, length) ELSE <<>>

\* Mutant of sampleIndices: the last row is not forced in.
sampleIndicesStrideOnly(length, maxPoints) ==
    IF length <= maxPoints THEN [i \in 1..length |-> i - 1]
    ELSE Strided(0, CeilDiv(length, maxPoints), length)

\* sampleData (lines 124-140) on row indices (from 0): rows are objects, and
\* line 135 compares two of them by identity, that is by their place in data
sampleIndices(length, maxPoints) ==
    IF length <= maxPoints THEN [i \in 1..length |-> i - 1]
    ELSE LET step == CeilDiv(length, maxPoints)
             sampled == Strided(0, step, length)
         IN  IF sampled[Len(sampled)] # length - 1
             THEN Append(sampled, length - 1)
             ELSE sampled

\* sampleData (lines 124-140)
sampleData(rows, maxPoints) ==
    LET idx == sampleIndices(Len(rows), maxPoints)
    IN  [i \in 1..Len(idx) |-> rows[idx[i] + 1]]

RECURSIVE SumColumn(_, _)
\* chartData.reduce((acc, row) => acc + (isNaN(value) ? 0 : value), 0) (lines 477-480)
SumColumn(rows, col) ==
    IF rows = <<>> THEN 0
    ELSE LET value == ToNumber(Get(rows[Len(rows)], col))
         IN  SumColumn(SubSeq(rows, 1, Len(rows) - 1), col)
               + (IF value.nan THEN 0 ELSE value.n)

\* Mutant of pieData: columns of total 0 or below are kept.
pieDataUnfiltered(rows, columns) ==
    [i \in 1..Len(columns) |->
        [name |-> columns[i], value |-> SumColumn(rows, columns[i]),
         color |-> COLORS[((i - 1) % Len(COLORS)) + 1]]]

\* pieData (lines 476-486)
pieData(rows, columns) ==
    LET entries == [i \in 1..Len(columns) |->
                      [name |-> columns[i], value |-> SumColumn(rows, columns[i]),
                       color |-> COLORS[((i - 1) % Len(COLORS)) + 1]]]
    IN  SelectSeq(entries, LAMBDA d : d.value > 0)

\* the rows renderChart draws (lines 355-364)
chartDataOf(mode) ==
    LET sliced == IF mode = "full" THEN data
                  ELSE Slice(data, zoomDomain.start, zoomDomain.end + 1)
    IN  IF mode = "full" /\ Len(sliced) > SampleThreshold /\ xAxisStrategy = "sample"
        THEN sampleData(sliced, SampleMaxPoints)
        ELSE sliced

\* renderChart (lines 349-518): the message or the chart it returns
renderChart(mode) ==
    LET chartData == chartDataOf(mode)
        pie == pieData(chartData, selectedColumns)
    IN  IF Len(data) = 0 \/ Len(selectedColumns) = 0 \/ Len(headers) = 0
        THEN [kind |-> "message", mode |-> mode, text |-> "Please upload CSV and select columns."]
        ELSE IF chartType = "pie"
        THEN IF Len(pie) = 0 \/ \A i \in 1..Len(pie) : pie[i].value = 0
             THEN [kind |-> "message", mode |-> mode,
                   text |-> "Selected columns contain no numeric data for Pie Chart."]
             ELSE [kind |-> "pie", mode |-> mode, pieData |-> pie]
        ELSE [kind |-> chartType, mode |-> mode, chartData |-> chartData,
              domains |-> [i \in 1..Len(selectedColumns) |->
                              getDataRange(chartData, selectedColumns[i])]]

----------------------------------------------------------------------------
(* renderChart and sampleData applied to drawn inputs *)

\* rows of the Datasets renderChart is applied to (SpecRender)
MaxRows == 3

\* longest row list sampleData is applied to (SpecSample)
MaxSampleLen == 14

\* largest maxPoints sampleData is called with (SpecSample)
MaxSamplePoints == 8

\* what a cell of column A holds; "missing": the line was short and the row has no A
AChoices == {"negative", "positive", "text", "digits", "empty", "true", "missing"}

AValue(c) ==
    CASE c = "negative" -> Num(0 - 10)
      [] c = "positive" -> Num(40)
      [] c = "text"     -> Str(<<"n", "a">>)
      [] c = "digits"   -> Str(<<" ", "7">>)
      [] c = "empty"    -> Null
      [] c = "true"     -> Bool(TRUE)

BChoices == {"zero", "twenty"}

\* results.data of a file with columns x, A, B
RenderRows(n, a, b) ==
    [i \in 1..n |->
        <<Cell("x", Num(i))>>
        \o (IF a[i] = "missing" THEN <<>> ELSE <<Cell("A", AValue(a[i]))>>)
        \o <<Cell("B", IF b = "zero" THEN Num(0) ELSE Num(20))>>]

\* the selections the checkboxes of columns A and B can produce
Selections == {<<>>, <<"A">>, <<"B">>, <<"A", "B">>, <<"B", "A">>}

\* the windows of a loaded Dataset of n rows
Windows(n) ==
    IF n = 1 THEN {[start |-> 0, end |-> 0]}
    ELSE {w \in [start : 0..(n - 1), end : 0..(n - 1)] : w.start < w.end}

InitRender ==
    \E n \in 1..MaxRows : \E a \in [1..n -> AChoices] : \E b \in BChoices :
    \E sel \in Selections : \E k \in {"bar", "pie"} : \E w \in Windows(n) :
        /\ a[1] # "missing"
        /\ data = CleanedData(RenderRows(n, a, b))
        /\ headers = ObjectKeys(RenderRows(n, a, b)[1])
        /\ chartType = k
        /\ selectedColumns = sel
        /\ zoomDomain = w
        /\ xAxisStrategy = "auto"
        /\ started = <<>>
        /\ pending = {}
        /\ completed = <<>>
        /\ lastOp = Op("init")
        /\ origin = w
        /\ steps = <<>>
        /\ shown = NoRender

\* renderChart() at line 686 and renderChart("full") at line 697
Render(mode) ==
    /\ shown' = renderChart(mode)
    /\ lastOp' = Op("render")
    /\ UNCHANGED <<data, headers, chartType, selectedColumns, zoomDomain,
                   xAxisStrategy, started, pending, completed, origin, steps>>

NextRender == \E mode \in {"normal", "full"} : Render(mode)

SpecRender == InitRender /\ [][NextRender]_vars

InitSample ==
    \E n \in 0..MaxSampleLen :
        /\ data = CleanedData(SeriesRows(n))
        /\ headers = IF n = 0 THEN <<>> ELSE ObjectKeys(SeriesRows(n)[1])
        /\ chartType = "line"
        /\ selectedColumns = IF n = 0 THEN <<>> ELSE <<"v">>
        /\ zoomDomain = IF n = 0 THEN InitView.zoomDomain ELSE ResetWindow(n)
        /\ xAxisStrategy = "sample"
        /\ started = <<>>
        /\ pending = {}
        /\ completed = <<>>
        /\ lastOp = Op("init")
        /\ origin = zoomDomain
        /\ steps = <<>>
        /\ shown = NoRender

\* sampleData(data, maxPoints) (lines 124-140)
Sample(maxPoints) ==
    /\ shown' = [kind |-> "sample", maxPoints |-> maxPoints,
                 indices |-> sampleIndices(Len(data), maxPoints),
                 rows |-> sampleData(data, maxPoints)]
    /\ lastOp' = Op("sample")
    /\ UNCHANGED <<data, headers, chartType, selectedColumns, zoomDomain,
                   xAxisStrategy, started, pending, completed, origin, steps>>

NextSample == \E maxPoints \in 1..MaxSamplePoints : Sample(maxPoints)

SpecSample == InitSample /\ [][NextSample]_vars

----------------------------------------------------------------------------
(* Properties *)

WindowSize(w) == w.end - w.start

\* results.data of the upload whose complete callback fired last
LastCompletedRows == ResultsData(started[completed[Len(completed)]])

\* results.data of the upload whose callback lastOp records
LastOpRows == ResultsData(started[lastOp.seq])

NoDuplicates(s) == \A i, j \in 1..Len(s) : s[i] = s[j] => i = j

\* C1 as stated: in every reachable state, the initial one included,
\* 0 <= start < end <= length - 1 for the current Dataset's length.
C1_WindowValid ==
    /\ 0 <= zoomDomain.start
    /\ zoomDomain.start < zoomDomain.end
    /\ zoomDomain.end <= Len(data) - 1

\* C1 (amended): whenever the Dataset has at least two rows,
\* 0 <= start < end <= length - 1; with a one-row Dataset the window is [0, 0].
C1_WindowValidFromTwoRows ==
    /\ Len(data) >= 2 => C1_WindowValid
    /\ Len(data) = 1 => zoomDomain = [start |-> 0, end |-> 0]

\* a zoom-out has just produced a window that is not the full range
C1_Witness ==
    /\ Len(data) >= 2
    /\ lastOp.op = "zoomOut"
    /\ zoomDomain # ResetWindow(Len(data))

\* C2 as stated, for a file of at least one row: once its parse completes, the
\* whole state (Dataset, headers, selected columns, chart kind, tick strategy,
\* window) is what uploading that file into the initial state produces.
C2_UploadResetsEverything ==
    (lastOp.op = "complete" /\ Len(LastOpRows) > 0)
        => View = OnComplete(InitView, LastOpRows)

C2_CompleteStep ==
    lastOp'.op = "complete" =>
        LET rows == ResultsData(started'[lastOp'.seq])
            fresh == OnComplete(InitView, rows)
        IN  /\ data' = fresh.data
            /\ Len(rows) > 0 =>
                  /\ headers' = fresh.headers
                  /\ selectedColumns' = fresh.selectedColumns
                  /\ zoomDomain' = fresh.zoomDomain
            /\ chartType' = chartType
            /\ xAxisStrategy' = xAxisStrategy

\* C2 (amended): once the parse of a file completes, the Dataset is that file's
\* rows and, when the file has at least one row, headers, selected columns and
\* window are those that uploading it into the initial state produces; the chart
\* kind and the tick strategy keep the values they had before the upload.
C2_UploadReplacesData == [][C2_CompleteStep]_vars

\* a second, different file has replaced a loaded one after the chart kind was changed
C2_Witness ==
    /\ lastOp.op = "complete"
    /\ Len(completed) = 2
    /\ started[completed[1]] # started[completed[2]]
    /\ Len(ResultsData(started[completed[1]])) > 0
    /\ Len(data) > 0
    /\ chartType # InitView.chartType

\* C3 as stated: zoom-in then zoom-out yields a window containing the starting one.
C3_InThenOutContains ==
    steps = <<"in", "out">> =>
        /\ zoomDomain.start <= origin.start
        /\ zoomDomain.end >= origin.end

\* C3 (amended): zoom-in then zoom-out yields [s', e'] with s' <= s + 1 and
\* e' >= e - 1; it contains the starting window [s, e] exactly when e - s <= 2 or
\* (e - s) mod 4 is 0 or 3.
C3_InThenOutNearlyContains ==
    steps = <<"in", "out">> =>
        /\ zoomDomain.start <= origin.start + 1
        /\ zoomDomain.end >= origin.end - 1
        /\ (zoomDomain.start <= origin.start /\ zoomDomain.end >= origin.end)
             <=> (WindowSize(origin) <= 2 \/ WindowSize(origin) % 4 \in {0, 3})

\* zoom-in shrank the window and the zoom-out after it did not reach back to the start
C3_Witness ==
    /\ steps = <<"in", "out">>
    /\ WindowSize(origin) > 2
    /\ zoomDomain.start = origin.start + 1
    /\ zoomDomain.end = origin.end - 1

C4_ZoomInStep ==
    IF WindowSize(zoomDomain) > 2
    THEN /\ WindowSize(zoomDomain') < WindowSize(zoomDomain)
         /\ WindowSize(zoomDomain') >= 1
    ELSE zoomDomain' = zoomDomain

\* C4: repeated zoom-in reaches a window with end - start <= 2 and stays there;
\* each zoom-in above the floor strictly shrinks end - start, and a zoom-in at the
\* floor leaves the window unchanged.
C4_ZoomInReachesFloor ==
    /\ <>[](WindowSize(zoomDomain) <= 2)
    /\ [][C4_ZoomInStep]_vars

\* zoom-in has brought a window wider than 2 down to the floor
C4_Witness ==
    /\ lastOp.op = "zoomIn"
    /\ WindowSize(origin) > 2
    /\ WindowSize(zoomDomain) <= 2

\* C5 as stated: after a parse completes with zero rows the Dataset is empty and
\* the headers, selected columns and window of the previous file are gone.
C5_EmptyUploadClears ==
    (lastOp.op = "complete" /\ Len(LastOpRows) = 0) =>
        /\ data = <<>>
        /\ headers = <<>>
        /\ selectedColumns = <<>>
        /\ zoomDomain = InitView.zoomDomain

C6_ErrorStep == lastOp'.op = "error" => View' = View

\* C6: the error callback of a failed parse changes nothing: Dataset, headers,
\* selected columns, chart kind, tick strategy and window are what they were.
C6_ErrorKeepsState == [][C6_ErrorStep]_vars

\* a parse has failed while a file was loaded
C6_Witness ==
    /\ lastOp.op = "error"
    /\ Len(data) > 0
    /\ Len(completed) > 0

\* C7: whatever the order uploads were started in, the Dataset is the whole row
\* list of the upload whose complete callback fired last, and of that one only.
C7_LastCompletionWins ==
    completed # <<>> => data = CleanedData(LastCompletedRows)

\* two overlapping uploads of different files completed in the reverse of their start order
C7_Witness ==
    /\ Len(completed) = 2
    /\ completed[1] > completed[2]
    /\ pending = {}
    /\ Len(ResultsData(started[1])) > 0
    /\ Len(ResultsData(started[2])) > 0
    /\ started[1] # started[2]

\* C8: right after a parse of N >= 1 rows completes, the Dataset has N rows in
\* file order, headers is the key list of the first row, the selection is
\* <<headers[1]>> (the second column) when there are two columns and empty otherwise,
\* and the window is [0, N - 1].
C8_SuccessfulParse ==
    (lastOp.op = "complete" /\ Len(LastOpRows) >= 1) =>
        LET rows == LastOpRows IN
        /\ Len(data) = Len(rows)
        /\ \A i \in 1..Len(rows) :
              /\ ObjectKeys(data[i]) = ObjectKeys(rows[i])
              /\ \A j \in 1..Len(rows[i]) :
                    rows[i][j].val.t = "num" => data[i][j].val = rows[i][j].val
        /\ headers = ObjectKeys(rows[1])
        /\ selectedColumns = IF Len(headers) >= 2 THEN <<headers[2]>> ELSE <<>>
        /\ zoomDomain = [start |-> 0, end |-> Len(rows) - 1]

\* a file of three columns has just been parsed
C8_Witness ==
    /\ lastOp.op = "complete"
    /\ Len(LastOpRows) >= 1
    /\ Len(headers) = 3
    /\ selectedColumns = <<headers[2]>>

\* C9: a non-empty Dataset has a non-empty headers, which is the key list of its
\* own first row and of the first row of the upload that produced it.
C9_HeadersOfSameUpload ==
    Len(data) > 0 =>
        /\ headers # <<>>
        /\ headers = ObjectKeys(data[1])
        /\ completed # <<>>
        /\ headers = ObjectKeys(LastCompletedRows[1])

\* a file with other columns has replaced a loaded one
C9_Witness ==
    /\ Len(data) > 0
    /\ Len(completed) = 2
    /\ Len(ResultsData(started[completed[1]])) > 0
    /\ ObjectKeys(ResultsData(started[completed[1]])[1]) # headers

C10_ToggleStep ==
    lastOp'.op = "toggle" =>
        LET col == lastOp'.col IN
        /\ col \in Range(selectedColumns) <=> col \notin Range(selectedColumns')
        /\ SelectSeq(selectedColumns', LAMBDA c : c # col)
             = SelectSeq(selectedColumns, LAMBDA c : c # col)
        /\ NoDuplicates(selectedColumns')
        /\ Range(ToggleColumn(selectedColumns', col)) = Range(selectedColumns)
        /\ UNCHANGED <<data, headers, chartType, zoomDomain, xAxisStrategy>>

\* C10: a toggle of column c selects c when it was not selected and deselects it
\* when it was, keeps the other selected columns, creates no duplicate, changes
\* nothing else, and a second toggle of c gives back the original set.
C10_ToggleColumn == [][C10_ToggleStep]_vars

\* a toggle has removed one of two selected columns
C10_Witness ==
    /\ lastOp.op = "toggle"
    /\ lastOp.col \notin Range(selectedColumns)
    /\ selectedColumns # <<>>

\* the least integer c with c * d >= r, for r >= 0 and d > 0
LeastMultiple(r, d) == CHOOSE c \in 0..r : c * d >= r /\ (c = 0 \/ (c - 1) * d < r)

\* the rows the window [start, end] shows, for a window inside the Dataset
RowsInWindow(w) == [i \in 1..(w.end - w.start + 1) |-> data[w.start + i]]

\* the rows a rendering was computed from, by its mode
RowsInView(mode) == IF mode = "full" THEN data ELSE RowsInWindow(zoomDomain)

\* the numbers Number() finds in a column: the values that are not NaN
NumbersOf(rows, col) ==
    {ToNumber(Get(rows[j], col)).n :
        j \in {k \in 1..Len(rows) : ~ToNumber(Get(rows[k], col)).nan}}

RECURSIVE TotalOf(_, _)
\* the sum of a column's numbers, first row first
TotalOf(rows, col) ==
    IF rows = <<>> THEN 0
    ELSE (IF ToNumber(Get(Head(rows), col)).nan THEN 0
          ELSE ToNumber(Get(Head(rows), col)).n) + TotalOf(Tail(rows), col)

\* C11: sampleData of L rows with maxPoints M >= 1 returns the rows unchanged when
\* L <= M; otherwise the rows at the multiples of step = ceil(L / M), in order,
\* then the last row when L - 1 is no multiple of step: the result ends with the
\* last row and has at most M + 1 rows.
C11_SampleData ==
    shown.kind = "sample" =>
        LET L == Len(data)
            M == shown.maxPoints
            idx == shown.indices
            step == LeastMultiple(L, M)
        IN  /\ Len(shown.rows) = Len(idx)
            /\ \A i \in 1..Len(idx) : shown.rows[i] = data[idx[i] + 1]
            /\ L <= M => shown.rows = data
            /\ L > M =>
                  /\ Range(idx) = {k \in 0..(L - 1) : k % step = 0} \cup {L - 1}
                  /\ \A i \in 1..(Len(idx) - 1) : idx[i] < idx[i + 1]
                  /\ shown.rows[Len(idx)] = data[L]
                  /\ Len(shown.rows) <= M + 1

\* the last row was forced in after the strided ones
C11_Witness ==
    /\ shown.kind = "sample"
    /\ Len(data) > shown.maxPoints
    /\ (Len(data) - 1) % LeastMultiple(Len(data), shown.maxPoints) # 0
    /\ Len(shown.rows) = shown.maxPoints + 1

C14_ZoomInStep ==
    steps' = Append(steps, "in") =>
        LET s == zoomDomain.start
            e == zoomDomain.end
            r == e - s
            c == LeastMultiple(r, 4)
        IN  /\ zoomDomain' =
                  IF r <= 2 THEN zoomDomain
                  ELSE IF s + c >= e - c THEN zoomDomain
                  ELSE [start |-> s + c, end |-> e - c]
            /\ UNCHANGED <<data, headers, chartType, selectedColumns, xAxisStrategy>>

\* C14: zoom-in on [s, e] with r = e - s leaves the window unchanged when r <= 2
\* or when s + ceil(r/4) >= e - ceil(r/4), and otherwise makes it
\* [s + ceil(r/4), e - ceil(r/4)]; it changes nothing but the window.
C14_ZoomIn == [][C14_ZoomInStep]_vars

\* a zoom-in has shrunk a window wider than 2 by ceil(r/4) on each side
C14_Witness ==
    /\ steps = <<"in">>
    /\ WindowSize(origin) > 2
    /\ zoomDomain.start = origin.start + LeastMultiple(WindowSize(origin), 4)
    /\ zoomDomain.end = origin.end - LeastMultiple(WindowSize(origin), 4)

C15_ZoomOutStep ==
    steps' = Append(steps, "out") =>
        LET s == zoomDomain.start
            e == zoomDomain.end
            n == Len(data)
            c == LeastMultiple(e - s, 2)
        IN  /\ zoomDomain'.start = (IF s - c > 0 THEN s - c ELSE 0)
            /\ zoomDomain'.end = (IF e + c < n - 1 THEN e + c ELSE n - 1)
            /\ (s = 0 /\ e = n - 1) => zoomDomain' = zoomDomain
            /\ zoomDomain'.start <= s
            /\ zoomDomain'.end >= e

\* C15: zoom-out on [s, e] over n rows gives
\* [max(0, s - ceil(r/2)), min(n - 1, e + ceil(r/2))]; on the full-range window it
\* changes nothing, and it never raises start or lowers end.
C15_ZoomOut == [][C15_ZoomOutStep]_vars

\* zoom-out was invoked directly on the full-range window and changed nothing
C15_Witness ==
    /\ steps = <<"out">>
    /\ origin = ResetWindow(Len(data))
    /\ zoomDomain = origin

\* C16 as stated: in pie mode the aggregate of the normal view is the aggregate
\* over all rows of the Dataset, whatever the window.
C16_PieIgnoresWindow ==
    chartType = "pie" =>
        pieData(chartDataOf("normal"), selectedColumns) = pieData(data, selectedColumns)

\* C17: with a Dataset of n >= 1 rows, 0 <= start <= end <= n - 1, and the
\* visible slice is the end - start + 1 rows from start to end: not empty, inside
\* the Dataset, at most n rows.
C17_SliceInsideDataset ==
    Len(data) >= 1 =>
        LET visible == chartDataOf("normal")
            currentDataSize == zoomDomain.end - zoomDomain.start + 1
        IN  /\ 0 <= zoomDomain.start
            /\ zoomDomain.start <= zoomDomain.end
            /\ zoomDomain.end <= Len(data) - 1
            /\ Len(visible) = currentDataSize
            /\ Len(visible) >= 1
            /\ currentDataSize <= Len(data)
            /\ \A i \in 1..Len(visible) : visible[i] = data[zoomDomain.start + i]

\* a zoom-in has left a proper part of a loaded Dataset visible
C17_Witness ==
    /\ Len(data) >= 1
    /\ lastOp.op = "zoomIn"
    /\ Len(chartDataOf("normal")) < Len(data)

====
